---------------------------- MODULE Spec2Model ----------------------------
(***************************************************************************)
(* BlenderLauncher (startup_log.py): prepare_launch, which writes a shell  *)
(* script to a temporary file and hands it to Terminal through osascript,  *)
(* and scan_software / _find_software, which discover Blender executables  *)
(* from the platform's path templates.                                     *)
(*                                                                         *)
(* Text is a sequence of tokens.  The characters the code treats or might  *)
(* treat specially (double quote, backslash, dollar, backtick, newline,    *)
(* the space between arguments) are tokens of their own; any other token   *)
(* is a run of ordinary characters.  Python's None is the one-token text   *)
(* NoneVal.                                                                *)
(***************************************************************************)
EXTENDS Integers, Sequences, FiniteSets, TLC

VARIABLES
    host,       \* self.disk_location, self.engine_name, self.context, sgtk path, sys.executable, sys.platform
    environ,    \* os.environ: the variables the launcher reads
    calls,      \* one record per prepare_launch call: arguments, locals, program counter, outcome
    files,      \* the temporary directory: file name -> [content, mode]
    popen,      \* the subprocess.Popen calls issued so far
    terminal,   \* the state of the process each Popen started
    disk,       \* the paths glob can see (relative ones are relative to the working directory)
    supportedVersions, \* the versions _is_supported accepts
    scan        \* the locals of the current scan_software call

vars == <<host, environ, calls, files, popen, terminal, disk, supportedVersions, scan>>

---------------------------------------------------------------------------
(* Bounds *)

MaxCalls == 2      \* prepare_launch calls in one run
MaxNames == 3      \* names tempfile can draw from
MaxLen == 2        \* length of a drawn text
MaxDisk == 2       \* paths present on disk

---------------------------------------------------------------------------
(* Text *)

NoneVal == <<"None">>

Quote == "\""
Backslash == "\\"
Newline == "\n"
Backtick == "<backtick>"   \* the character itself cannot be written in a TLA+ string

Chars == {"a", Quote, Backslash, "$", Backtick, Newline}

Texts(n) == UNION {[1..k -> Chars] : k \in 0..n}

Last(s) == s[Len(s)]

RECURSIVE Flatten(_)
Flatten(ss) == IF ss = <<>> THEN <<>> ELSE Head(ss) \o Flatten(Tail(ss))

\* str.replace(old, new) for a one-character old
RECURSIVE Replace(_, _, _)
Replace(s, old, new) ==
    IF s = <<>> THEN <<>>
    ELSE (IF Head(s) = old THEN new ELSE <<Head(s)>>) \o Replace(Tail(s), old, new)

\* os.path.join(a, b) for a relative b
PathJoin(a, b) ==
    IF a = <<>> THEN b
    ELSE IF Last(a) = "/" THEN a \o b
    ELSE a \o <<"/">> \o b

\* bool(x) of a str or None
Truthy(x) == x # NoneVal /\ x # <<>>

---------------------------------------------------------------------------
(* Dictionaries keep insertion order and hold a key once *)

DictKeys(d) == {d[i][1] : i \in 1..Len(d)}

DictSet(d, k, v) ==
    IF k \in DictKeys(d)
    THEN [i \in 1..Len(d) |-> IF d[i][1] = k THEN <<k, v>> ELSE d[i]]
    ELSE Append(d, <<k, v>>)

---------------------------------------------------------------------------
(* prepare_launch, lines 41-80: the environment and the script *)

scripts_path(h) == PathJoin(PathJoin(h.disk_location, <<"resources">>), <<"scripts">>)

startup_path(h) == PathJoin(PathJoin(scripts_path(h), <<"startup">>), <<"Shotgun_menu.py">>)

args_with_startup(h, args) == args \o <<"-P", " ">> \o startup_path(h)

NeedsPyside(env) == ~ Truthy(env.PYSIDE2_PYTHONPATH)

RequiredEnvAlwaysPyside(h, env, file_to_open) ==
    LET e1 == DictSet(<<>>, "BLENDER_USER_SCRIPTS", scripts_path(h))
        e2 == DictSet(e1, "PYSIDE2_PYTHONPATH",
                      PathJoin(PathJoin(h.disk_location, <<"python">>), <<"ext">>))
        e3 == DictSet(e2, "SGTK_MODULE_PATH", Replace(h.sgtk_module_path, Backslash, <<"/">>))
        e4 == DictSet(e3, "SGTK_BLENDER_ENGINE_STARTUP",
                      PathJoin(PathJoin(h.disk_location, <<"startup">>), <<"bootstrap.py">>))
        e5 == DictSet(e4, "SGTK_BLENDER_ENGINE_PYTHON", Replace(h.executable, Backslash, <<"/">>))
        e6 == DictSet(e5, "SGTK_ENGINE", h.engine_name)
        e7 == DictSet(e6, "SGTK_CONTEXT", h.context)
    IN  IF Truthy(file_to_open) THEN DictSet(e7, "SGTK_FILE_TO_OPEN", file_to_open) ELSE e7

RequiredEnv(h, env, file_to_open) ==
    LET e1 == DictSet(<<>>, "BLENDER_USER_SCRIPTS", scripts_path(h))
        e2 == IF NeedsPyside(env)
              THEN DictSet(e1, "PYSIDE2_PYTHONPATH",
                           PathJoin(PathJoin(h.disk_location, <<"python">>), <<"ext">>))
              ELSE e1
        e3 == DictSet(e2, "SGTK_MODULE_PATH", Replace(h.sgtk_module_path, Backslash, <<"/">>))
        e4 == DictSet(e3, "SGTK_BLENDER_ENGINE_STARTUP",
                      PathJoin(PathJoin(h.disk_location, <<"startup">>), <<"bootstrap.py">>))
        e5 == DictSet(e4, "SGTK_BLENDER_ENGINE_PYTHON", Replace(h.executable, Backslash, <<"/">>))
        e6 == DictSet(e5, "SGTK_ENGINE", h.engine_name)
        e7 == DictSet(e6, "SGTK_CONTEXT", h.context)
    IN  IF Truthy(file_to_open) THEN DictSet(e7, "SGTK_FILE_TO_OPEN", file_to_open) ELSE e7

val_escaped_backslash_too(val) ==
    Replace(Replace(val, Backslash, <<Backslash, Backslash>>), Quote, <<Backslash, Quote>>)

val_escaped(val) == Replace(val, Quote, <<Backslash, Quote>>)

ExportLine(key, val) == <<"export ", key, "=", Quote>> \o val_escaped(val) \o <<Quote, Newline>>

CommandLine(exec_path, args) == <<Quote>> \o exec_path \o <<Quote, " ">> \o args \o <<Newline>>

HeaderLines ==
    << <<"#!/bin/bash", Newline>>,
       <<"# Auto-generated script to launch Blender in a Terminal", Newline>> >>

PauseLine == <<"read -p ", Quote, "Press [Enter] to close this window...", Quote, Newline>>

ShellScriptLines(required_env, exec_path, args) ==
    HeaderLines
    \o [i \in 1..Len(required_env) |-> ExportLine(required_env[i][1], required_env[i][2])]
    \o << CommandLine(exec_path, args), PauseLine >>

---------------------------------------------------------------------------
(* The values the framework and the caller supply *)

DiskLocations == {<<"/", "tk">>, <<"/", "t", Quote, "k">>}
ModulePaths == {<<"/", "core">>, <<"C:", Backslash, "core">>}
Executables == {<<"/", "python">>, <<"C:", Backslash, "python">>}
Contexts == {<<"ctx">>, <<"{", Quote, "id", Quote, "}">>}
PysideValues == {NoneVal, <<>>, <<"/", "pyside">>}
Platforms == {"darwin", "linux", "win32"}

Hosts(disks, modules, execs, contexts, platforms) ==
    [disk_location : disks, engine_name : {<<"tk-blender">>}, context : contexts,
     sgtk_module_path : modules, executable : execs, platform : platforms]

ExecPaths == {<<"/", "Blender">>}

\* argument strings with and without the startup token already in them
ArgChoices(h) ==
    {<<>>, <<"-b">>, <<"-b", " ">>,
     <<"-P", " ">> \o startup_path(h),
     <<"-P", " ">> \o startup_path(h) \o <<" ">>}

\* the arguments of a call: <<exec_path, args, file_to_open>>
WideInputs(h) == ExecPaths \X ArgChoices(h) \X ({NoneVal} \cup Texts(MaxLen))

NarrowInputs(h) ==
    {<< <<"/", "Blender">>, <<>>, NoneVal >>,
     << <<"/", "Blender">>, <<"-b", " ">>, <<"a", Quote>> >>}

---------------------------------------------------------------------------
(* prepare_launch, lines 82-109: the file, the Popen, the return *)

Mode600 == 384     \* 0o600, the mode tempfile creates files with
Mode755 == 493     \* 0o755

OwnerExecutable(mode) == (mode \div 64) % 2 = 1

TmpNames == 1..MaxNames

\* NamedTemporaryFile retries until it has created a file that did not exist
AnyName(fs) == TmpNames

FreshNames(fs) == TmpNames \ DOMAIN fs

\* the order of the statements of lines 83-107
StatementAfterPopenFirst(stmt) ==
    CASE stmt = "build" -> "create"
      [] stmt = "create" -> "popen"
      [] stmt = "popen" -> "writelines"
      [] stmt = "writelines" -> "close"
      [] stmt = "close" -> "chmod"
      [] stmt = "chmod" -> "return"
      [] stmt = "return" -> "returned"

StatementAfter(stmt) ==
    CASE stmt = "build" -> "create"
      [] stmt = "create" -> "writelines"
      [] stmt = "writelines" -> "close"
      [] stmt = "close" -> "chmod"
      [] stmt = "chmod" -> "popen"
      [] stmt = "popen" -> "return"
      [] stmt = "return" -> "returned"

\* the statements that can raise: file creation, write, close, chmod, process creation
Fallible == {"create", "writelines", "close", "chmod", "popen"}

\* LaunchInformation(path, args, environ): the descriptor <<path, args, environ>>
LaunchInformation(path, args, env) == <<path, args, env>>

NoDescriptor == <<>>

ReturnValueNormal(c) == LaunchInformation(c.exec_path, c.args_final, c.required_env)

ReturnValue(c) == LaunchInformation(NoneVal, NoneVal, NoneVal)

\* nothing in lines 82-109 catches an exception: it leaves prepare_launch
OnErrorFallBack(c) ==
    [c EXCEPT !.pc = "returned", !.outcome = "returned", !.descriptor = ReturnValue(c)]

OnError(c) == [c EXCEPT !.pc = "raised", !.outcome = "raised", !.error = c.pc]

\* how much of the buffered text a write has already put on disk: none, some, all
FlushPoints(lines) == {0, 1, Len(lines)}

Cur == Len(calls)

Running == calls # <<>> /\ calls[Cur].pc \notin {"returned", "raised"}

At(stmt) == calls # <<>> /\ calls[Cur].pc = stmt

Call(inputs) ==
    /\ Len(calls) < MaxCalls
    /\ ~ Running
    /\ \E in \in inputs :
         calls' = Append(calls,
            [pc |-> "build", exec_path |-> in[1], args |-> in[2],
             file_to_open |-> in[3], args_final |-> <<>>, required_env |-> <<>>,
             shell_script_lines |-> <<>>, script_path |-> 0, buffer |-> <<>>,
             failed |-> "none", outcome |-> "none", descriptor |-> NoDescriptor,
             error |-> "none"])
    /\ UNCHANGED <<host, environ, files, popen, terminal, disk, supportedVersions, scan>>

CallNarrow == Call(NarrowInputs(host))

CallWide == Call(WideInputs(host))

Build ==
    /\ At("build")
    /\ LET c == calls[Cur]
           a == args_with_startup(host, c.args)
           e == RequiredEnv(host, environ, c.file_to_open)
       IN  calls' = [calls EXCEPT ![Cur] =
                [c EXCEPT !.pc = StatementAfter("build"),
                          !.args_final = a,
                          !.required_env = e,
                          !.shell_script_lines = ShellScriptLines(e, c.exec_path, a)]]
    /\ UNCHANGED <<host, environ, files, popen, terminal, disk, supportedVersions, scan>>

Create ==
    /\ At("create")
    /\ \E name \in FreshNames(files) :
         /\ files' = [n \in DOMAIN files \cup {name} |->
                        IF n = name THEN [content |-> <<>>, mode |-> Mode600] ELSE files[n]]
         /\ calls' = [calls EXCEPT ![Cur].pc = StatementAfter("create"),
                                   ![Cur].script_path = name]
    /\ UNCHANGED <<host, environ, popen, terminal, disk, supportedVersions, scan>>

Writelines ==
    /\ At("writelines")
    /\ LET c == calls[Cur]
       IN  \E k \in FlushPoints(c.shell_script_lines) :
             /\ files' = [files EXCEPT ![c.script_path].content =
                                         SubSeq(c.shell_script_lines, 1, k)]
             /\ calls' = [calls EXCEPT ![Cur].pc = StatementAfter("writelines"),
                                       ![Cur].buffer =
                                         SubSeq(c.shell_script_lines, k + 1,
                                                Len(c.shell_script_lines))]
    /\ UNCHANGED <<host, environ, popen, terminal, disk, supportedVersions, scan>>

Close ==
    /\ At("close")
    /\ LET c == calls[Cur]
       IN  /\ files' = [files EXCEPT ![c.script_path].content = @ \o c.buffer]
           /\ calls' = [calls EXCEPT ![Cur].pc = StatementAfter("close"),
                                     ![Cur].buffer = <<>>]
    /\ UNCHANGED <<host, environ, popen, terminal, disk, supportedVersions, scan>>

Chmod ==
    /\ At("chmod")
    /\ files' = [files EXCEPT ![calls[Cur].script_path].mode = Mode755]
    /\ calls' = [calls EXCEPT ![Cur].pc = StatementAfter("chmod")]
    /\ UNCHANGED <<host, environ, popen, terminal, disk, supportedVersions, scan>>

Popen ==
    /\ At("popen")
    /\ popen' = Append(popen, [argv |-> <<"osascript", "-e">>,
                               script |-> calls[Cur].script_path, call |-> Cur])
    /\ terminal' = Append(terminal, "running")
    /\ calls' = [calls EXCEPT ![Cur].pc = StatementAfter("popen")]
    /\ UNCHANGED <<host, environ, files, disk, supportedVersions, scan>>

\* the processes the call waits for before it returns: the Popen object is dropped,
\* nothing calls wait() or communicate()
Awaited(i) == {}

ReturnEnabled ==
    /\ At("return")
    /\ \A k \in Awaited(Cur) : terminal[k] = "exited"

Return ==
    /\ ReturnEnabled
    /\ calls' = [calls EXCEPT ![Cur].pc = StatementAfter("return"),
                              ![Cur].outcome = "returned",
                              ![Cur].descriptor = ReturnValue(calls[Cur])]
    /\ UNCHANGED <<host, environ, files, popen, terminal, disk, supportedVersions, scan>>

\* the statement at pc raises (an OSError, say); failed records where
Raise ==
    /\ calls # <<>>
    /\ calls[Cur].pc \in Fallible
    /\ calls' = [calls EXCEPT ![Cur] = [OnError(calls[Cur]) EXCEPT !.failed = calls[Cur].pc]]
    /\ UNCHANGED <<host, environ, files, popen, terminal, disk, supportedVersions, scan>>

\* the user closes the Terminal window
TerminalExit ==
    /\ \E i \in 1..Len(terminal) :
         /\ terminal[i] = "running"
         /\ terminal' = [terminal EXCEPT ![i] = "exited"]
    /\ UNCHANGED <<host, environ, calls, files, popen, disk, supportedVersions, scan>>

ScanIdle == [pc |-> "idle"]

InitLaunch(hosts) ==
    /\ host \in hosts
    /\ environ \in [PYSIDE2_PYTHONPATH : PysideValues, BLENDER_BIN_DIR : {NoneVal},
                    SGTK_BLENDER_CMD_EXTRA_ARGS : {NoneVal}]
    /\ calls = <<>>
    /\ files = <<>>
    /\ popen = <<>>
    /\ terminal = <<>>
    /\ disk = {}
    /\ supportedVersions = {}
    /\ scan = ScanIdle

Init ==
    InitLaunch(Hosts({<<"/", "tk">>}, {<<"/", "core">>}, {<<"/", "python">>},
                     {<<"ctx">>}, {"darwin"}))

Next ==
    \/ CallNarrow
    \/ Build
    \/ Create
    \/ Writelines
    \/ Close
    \/ Chmod
    \/ Popen
    \/ Return
    \/ Raise
    \/ TerminalExit

Spec == Init /\ [][Next]_vars

\* the script of one call, over every value the text can take
InitScript == InitLaunch(Hosts(DiskLocations, ModulePaths, Executables, Contexts, {"darwin"}))

NextScript ==
    \/ CallWide /\ calls = <<>>
    \/ Build

SpecScript == InitScript /\ [][NextScript]_vars

---------------------------------------------------------------------------
(* _find_software and scan_software *)

VersionKey == "{version}"

\* EXECUTABLE_TEMPLATES.get(sys.platform, [])
ExecutableTemplatesDarwinDefault(platform) ==
    << <<"$BLENDER_BIN_DIR", "/Blender ", VersionKey>>,
       <<"/Applications/Blender", VersionKey, ".app/Contents/MacOS/Blender">> >>

ExecutableTemplates(platform) ==
    IF platform = "darwin"
    THEN << <<"$BLENDER_BIN_DIR", "/Blender ", VersionKey>>,
            <<"/Applications/Blender", VersionKey, ".app/Contents/MacOS/Blender">> >>
    ELSE <<>>

\* os.path.expanduser: only a leading ~ is expanded
expanduser(t) == IF t # <<>> /\ Head(t) = "~" THEN <<"/home/user">> \o Tail(t) ELSE t

IsVarRef(tok) == tok = "$BLENDER_BIN_DIR"

VarValue(tok, env) == env.BLENDER_BIN_DIR

\* an unset variable expands to nothing, as in a shell
RECURSIVE expandvars_unset_empty(_, _)
expandvars_unset_empty(t, env) ==
    IF t = <<>> THEN <<>>
    ELSE (IF IsVarRef(Head(t))
          THEN (IF VarValue(Head(t), env) # NoneVal THEN VarValue(Head(t), env) ELSE <<>>)
          ELSE <<Head(t)>>)
         \o expandvars_unset_empty(Tail(t), env)

\* os.path.expandvars: a reference to an unset variable is left as it is
RECURSIVE expandvars(_, _)
expandvars(t, env) ==
    IF t = <<>> THEN <<>>
    ELSE (IF IsVarRef(Head(t)) /\ VarValue(Head(t), env) # NoneVal
          THEN VarValue(Head(t), env)
          ELSE <<Head(t)>>)
         \o expandvars(Tail(t), env)

\* the version segments a path can hold, and those COMPONENT_REGEX_LOOKUP["version"] matches
Segments == {"2.79", "3.6", "beta"}
Versions == {"2.79", "3.6"}

\* glob: {version} becomes *, which stands for one segment
GlobMatches(template, path) ==
    /\ Len(path) = Len(template)
    /\ \A i \in 1..Len(template) : template[i] = VersionKey \/ template[i] = path[i]

VersionOf(template, path) ==
    path[CHOOSE i \in 1..Len(template) : template[i] = VersionKey]

\* _glob_and_match: the paths on disk that match the glob and whose version matches the regex
GlobAndMatch(template, paths) ==
    {<<path, VersionOf(template, path)>> :
        path \in {q \in paths : /\ GlobMatches(template, q)
                                /\ VersionKey \in {template[i] : i \in 1..Len(template)}
                                /\ VersionOf(template, q) \in Versions}}

Orderings(S) ==
    {f \in [1..Cardinality(S) -> S] : \A i, j \in 1..Cardinality(S) : f[i] = f[j] => i = j}

\* _icon_from_engine
IconFromEngine(h) == PathJoin(h.disk_location, <<"icon_256.png">>)

SoftwareVersion(version, product, path, icon, args) ==
    [version |-> version, product |-> product, path |-> path, icon |-> icon, args |-> args]

\* lines 149-163: one SoftwareVersion per match
Candidates(matches, h, extra_args) ==
    [i \in 1..Len(matches) |->
        SoftwareVersion(matches[i][2], "Blender", matches[i][1], IconFromEngine(h),
                        IF Truthy(extra_args) THEN <<extra_args>> ELSE <<>>)]

\* _is_supported
IsSupported(sw, supported) == sw.version \in supported

\* lines 126-127
KeepOncePerVersion(kept, sw, ok) ==
    IF ok /\ \A i \in 1..Len(kept) : kept[i].version # sw.version THEN Append(kept, sw) ELSE kept

Keep(kept, sw, ok) == IF ok THEN Append(kept, sw) ELSE kept

ScanStart ==
    /\ scan.pc = "idle"
    /\ scan' = [pc |-> "templates",
                executable_templates |-> ExecutableTemplates(host.platform),
                template |-> 1,
                matches |-> <<>>,
                sw_versions |-> <<>>,
                candidate |-> 1,
                supported_sw_versions |-> <<>>,
                globs |-> 0,
                checks |-> 0,
                result |-> <<>>]
    /\ UNCHANGED <<host, environ, calls, files, popen, terminal, disk, supportedVersions>>

\* lines 140-163, one template
FindTemplate ==
    /\ scan.pc = "templates"
    /\ scan.template <= Len(scan.executable_templates)
    /\ LET t == expandvars(expanduser(scan.executable_templates[scan.template]), environ)
       IN  \E executable_matches \in Orderings(GlobAndMatch(t, disk)) :
             scan' = [scan EXCEPT
                        !.template = @ + 1,
                        !.globs = @ + 1,
                        !.matches = Append(@, executable_matches),
                        !.sw_versions = @ \o Candidates(executable_matches, host,
                                                        environ.SGTK_BLENDER_CMD_EXTRA_ARGS)]
    /\ UNCHANGED <<host, environ, calls, files, popen, terminal, disk, supportedVersions>>

\* line 165
FindReturn ==
    /\ scan.pc = "templates"
    /\ scan.template > Len(scan.executable_templates)
    /\ scan' = [scan EXCEPT !.pc = "filter"]
    /\ UNCHANGED <<host, environ, calls, files, popen, terminal, disk, supportedVersions>>

\* lines 124-131, one candidate
FilterStep ==
    /\ scan.pc = "filter"
    /\ scan.candidate <= Len(scan.sw_versions)
    /\ LET sw == scan.sw_versions[scan.candidate]
       IN  scan' = [scan EXCEPT
                      !.candidate = @ + 1,
                      !.checks = @ + 1,
                      !.supported_sw_versions =
                          Keep(@, sw, IsSupported(sw, supportedVersions))]
    /\ UNCHANGED <<host, environ, calls, files, popen, terminal, disk, supportedVersions>>

\* line 133
ScanReturn ==
    /\ scan.pc = "filter"
    /\ scan.candidate > Len(scan.sw_versions)
    /\ scan' = [scan EXCEPT !.pc = "done", !.result = scan.supported_sw_versions]
    /\ UNCHANGED <<host, environ, calls, files, popen, terminal, disk, supportedVersions>>

BinDirValues == {NoneVal, <<>>, <<"/opt/blender">>}

DiskUniverse ==
    {<<"$BLENDER_BIN_DIR", "/Blender ", seg>> : seg \in Segments}
    \cup {<<"/opt/blender", "/Blender ", seg>> : seg \in Segments}
    \cup {<<"/Blender ", seg>> : seg \in Segments}
    \cup {<<"/Applications/Blender", seg, ".app/Contents/MacOS/Blender">> : seg \in Segments}

InitScan ==
    /\ host \in Hosts({<<"/", "tk">>}, {<<"/", "core">>}, {<<"/", "python">>},
                      {<<"ctx">>}, Platforms)
    /\ environ \in [PYSIDE2_PYTHONPATH : {NoneVal}, BLENDER_BIN_DIR : BinDirValues,
                    SGTK_BLENDER_CMD_EXTRA_ARGS : {NoneVal, <<"-b">>}]
    /\ disk \in {d \in SUBSET DiskUniverse : Cardinality(d) <= MaxDisk}
    /\ supportedVersions \in SUBSET Versions
    /\ scan = ScanIdle
    /\ calls = <<>>
    /\ files = <<>>
    /\ popen = <<>>
    /\ terminal = <<>>

NextScan ==
    \/ ScanStart
    \/ FindTemplate
    \/ FindReturn
    \/ FilterStep
    \/ ScanReturn

SpecScan == InitScan /\ [][NextScan]_vars

---------------------------------------------------------------------------
(* Properties of prepare_launch *)

Returned(i) == calls[i].pc = "returned"

\* C1: every prepare_launch call that returns normally returns a launch descriptor
\* whose path, args and environment are all None, whatever the arguments and the
\* ambient environment were.
C1_DescriptorAlwaysEmpty ==
    \A i \in 1..Len(calls) :
        Returned(i) =>
            /\ calls[i].outcome = "returned"
            /\ Len(calls[i].descriptor) = 3
            /\ \A f \in 1..3 : calls[i].descriptor[f] = NoneVal

C1_Witness ==
    \E i \in 1..Len(calls) :
        /\ Returned(i)
        /\ calls[i].args # <<>>
        /\ Truthy(calls[i].file_to_open)
        /\ Truthy(environ.PYSIDE2_PYTHONPATH)

PastPopen(i) == calls[i].pc \in {"return", "returned"}

\* C2: successive prepare_launch calls create distinct script files, an earlier
\* call's file still exists with that call's script in it, there is exactly one
\* Popen per call that reached it, each naming its own call's script, and the
\* return never waits for the terminal process to exit.
C2_DistinctScriptsAndSpawns ==
    /\ \A i, j \in 1..Len(calls) :
           (i < j /\ calls[i].script_path # 0 /\ calls[j].script_path # 0) =>
               /\ calls[i].script_path # calls[j].script_path
               /\ calls[i].script_path \in DOMAIN files
    /\ \A i \in 1..Len(calls) :
           PastPopen(i) =>
               /\ calls[i].script_path \in DOMAIN files
               /\ files[calls[i].script_path].content = calls[i].shell_script_lines
               /\ Cardinality({k \in 1..Len(popen) : popen[k].call = i}) = 1
    /\ Len(popen) = Cardinality({i \in 1..Len(calls) : PastPopen(i)})
    /\ \A k \in 1..Len(popen) : popen[k].script = calls[popen[k].call].script_path
    /\ At("return") => ReturnEnabled

C2_Witness ==
    /\ Len(calls) = 2
    /\ Returned(1) /\ Returned(2)
    /\ Len(popen) = 2
    /\ terminal[1] = "running" /\ terminal[2] = "running"
    /\ calls[1].script_path # calls[2].script_path

ExpectedEscape(v) ==
    Flatten([j \in 1..Len(v) |-> IF v[j] = Quote THEN <<Backslash, Quote>> ELSE <<v[j]>>])

Built(i) == calls[i].pc \notin {"build"}

\* C4: the line written for each environment variable is export NAME="V'", V' being
\* the value with each double quote replaced by backslash + double quote and every
\* other character (backslash, dollar, backtick, newline) unchanged and in order.
C4_ExportLineEscapesOnlyQuotes ==
    \A i \in 1..Len(calls) :
        Built(i) =>
            /\ Len(calls[i].shell_script_lines) = Len(calls[i].required_env) + 4
            /\ \A k \in 1..Len(calls[i].required_env) :
                   calls[i].shell_script_lines[2 + k] =
                       <<"export ", calls[i].required_env[k][1], "=", Quote>>
                       \o ExpectedEscape(calls[i].required_env[k][2])
                       \o <<Quote, Newline>>

C4_Witness ==
    \E i \in 1..Len(calls) :
        /\ Built(i)
        /\ calls[i].file_to_open = <<Quote, Backslash>>
        /\ \E k \in 1..Len(calls[i].shell_script_lines) :
               calls[i].shell_script_lines[k] =
                   <<"export ", "SGTK_FILE_TO_OPEN", "=", Quote, Backslash, Quote, Backslash,
                     Quote, Newline>>

\* C5: when creating, writing, closing or chmod-ing the script fails, prepare_launch
\* fails with that error, has issued no Popen and returns no descriptor; when the
\* Popen fails, prepare_launch fails with that error and returns no descriptor; and
\* no process other than osascript is ever started.
C5_FailuresPropagate ==
    /\ \A i \in 1..Len(calls) :
           calls[i].failed # "none" =>
               /\ calls[i].pc = "raised"
               /\ calls[i].outcome = "raised"
               /\ calls[i].error = calls[i].failed
               /\ calls[i].descriptor = NoDescriptor
               /\ \A k \in 1..Len(popen) : popen[k].call # i
    /\ \A k \in 1..Len(popen) : popen[k].argv[1] = "osascript"

C5_Witness ==
    /\ Len(calls) = 2
    /\ calls[1].failed = "chmod"
    /\ calls[2].failed = "popen"

FixedNames ==
    {"BLENDER_USER_SCRIPTS", "SGTK_MODULE_PATH", "SGTK_BLENDER_ENGINE_STARTUP",
     "SGTK_BLENDER_ENGINE_PYTHON", "SGTK_ENGINE", "SGTK_CONTEXT"}

ExportLines(lines) == {k \in 1..Len(lines) : lines[k][1] = "export "}

\* C6: the names the script exports are the six fixed names, plus PYSIDE2_PYTHONPATH
\* exactly when it is unset or empty in the ambient environment, plus
\* SGTK_FILE_TO_OPEN exactly when file_to_open is given and not empty; each once.
C6_ExportedNames ==
    \A i \in 1..Len(calls) :
        Built(i) =>
            LET lines == calls[i].shell_script_lines
                named == {lines[k][2] : k \in ExportLines(lines)}
            IN  /\ named = FixedNames
                           \cup (IF environ.PYSIDE2_PYTHONPATH \in {NoneVal, <<>>}
                                 THEN {"PYSIDE2_PYTHONPATH"} ELSE {})
                           \cup (IF calls[i].file_to_open \notin {NoneVal, <<>>}
                                 THEN {"SGTK_FILE_TO_OPEN"} ELSE {})
                /\ Cardinality(ExportLines(lines)) = Cardinality(named)

C6_Witness ==
    \E i \in 1..Len(calls) :
        /\ Built(i)
        /\ environ.PYSIDE2_PYTHONPATH = <<"/", "pyside">>
        /\ calls[i].file_to_open = <<"a">>
        /\ Cardinality(ExportLines(calls[i].shell_script_lines)) = 7

ScriptComplete(i) ==
    /\ calls[i].script_path \in DOMAIN files
    /\ files[calls[i].script_path].content = calls[i].shell_script_lines
    /\ calls[i].buffer = <<>>

\* C9: within a call the script is created, written in full and closed, made
\* owner-executable, and only then handed to osascript: whenever a Popen has been
\* issued, or is the next statement, its script exists, is complete and executable.
C9_ScriptReadyBeforePopen ==
    /\ \A k \in 1..Len(popen) :
           /\ ScriptComplete(popen[k].call)
           /\ OwnerExecutable(files[popen[k].script].mode)
    /\ \A i \in 1..Len(calls) :
           /\ calls[i].pc \in {"writelines", "close"} =>
                  /\ calls[i].script_path \in DOMAIN files
                  /\ \A k \in 1..Len(popen) : popen[k].call # i
           /\ calls[i].pc = "chmod" =>
                  ScriptComplete(i) /\ \A k \in 1..Len(popen) : popen[k].call # i
           /\ calls[i].pc = "popen" =>
                  /\ ScriptComplete(i)
                  /\ OwnerExecutable(files[calls[i].script_path].mode)

C9_Witness ==
    /\ Len(popen) = 1
    /\ At("return")
    /\ terminal[1] = "running"
    /\ files[popen[1].script].mode = Mode755
    /\ Len(files[popen[1].script].content) > 4

\* the words of an argument string: the runs of tokens between spaces
RECURSIVE WordsFrom(_, _, _)
WordsFrom(s, word, done) ==
    IF s = <<>> THEN (IF word = <<>> THEN done ELSE Append(done, word))
    ELSE IF Head(s) = " "
         THEN WordsFrom(Tail(s), <<>>, IF word = <<>> THEN done ELSE Append(done, word))
         ELSE WordsFrom(Tail(s), Append(word, Head(s)), done)

Words(s) == WordsFrom(s, <<>>, <<>>)

StartupTokens(s, h) ==
    LET w == Words(s)
    IN  Cardinality({k \in 1..(Len(w) - 1) : w[k] = <<"-P">> /\ w[k + 1] = startup_path(h)})

\* C10: the command line of the script holds the startup-script argument (-P and the
\* Shotgun_menu.py path) exactly once, as words of their own: it is added when the
\* supplied args lack it and not added again when they hold it.
C10_StartupArgumentOnce ==
    \A i \in 1..Len(calls) :
        Built(i) =>
            /\ calls[i].shell_script_lines[Len(calls[i].shell_script_lines) - 1] =
                   CommandLine(calls[i].exec_path, calls[i].args_final)
            /\ StartupTokens(calls[i].args_final, host) = 1

---------------------------------------------------------------------------
(* Properties of scan_software and _find_software *)

ScanDone == scan.pc = "done"

RECURSIVE Accepted(_, _)
Accepted(found, supported) ==
    IF found = <<>> THEN <<>>
    ELSE (IF Head(found).version \in supported THEN <<Head(found)>> ELSE <<>>)
         \o Accepted(Tail(found), supported)

\* C3: scan_software returns exactly the candidates of _find_software that
\* _is_supported accepts, in their original order, a candidate found twice kept twice.
C3_ScanReturnsAcceptedSubsequence ==
    ScanDone => scan.result = Accepted(scan.sw_versions, supportedVersions)

\* two installs of one accepted version and a rejected candidate between or beside them
C3_Witness ==
    /\ ScanDone
    /\ Len(scan.sw_versions) = 2
    /\ scan.sw_versions[1].version = scan.sw_versions[2].version
    /\ scan.sw_versions[1].path # scan.sw_versions[2].path
    /\ Len(scan.result) = 2
    /\ supportedVersions = {"3.6"}

\* C7: on a platform without an entry in EXECUTABLE_TEMPLATES, _find_software and
\* scan_software return an empty list, and neither a glob nor a support check is made.
C7_NoTemplatesNoCandidates ==
    (host.platform # "darwin" /\ scan.pc # "idle") =>
        /\ scan.sw_versions = <<>>
        /\ scan.supported_sw_versions = <<>>
        /\ scan.result = <<>>
        /\ scan.globs = 0
        /\ scan.checks = 0

C7_Witness ==
    /\ ScanDone
    /\ host.platform = "linux"
    /\ disk # {}
    /\ \E q \in disk : q[1] = "/Applications/Blender" /\ q[2] \in supportedVersions

\* the templates that refer to $BLENDER_BIN_DIR, and the others
VarTemplates(ts) == {t \in 1..Len(ts) : "$BLENDER_BIN_DIR" \in {ts[t][k] : k \in 1..Len(ts[t])}}

ApplicationsInstalls ==
    {q \in disk : q[1] = "/Applications/Blender" /\ q[2] \in Versions}

OthersProduced ==
    /\ {scan.sw_versions[k].path : k \in 1..Len(scan.sw_versions)} \cap
           {q \in DiskUniverse : q[1] = "/Applications/Blender"} = ApplicationsInstalls
    /\ \A t \in (1..Len(scan.matches)) \ VarTemplates(scan.executable_templates) :
           {scan.matches[t][k][1] : k \in 1..Len(scan.matches[t])} = ApplicationsInstalls

VarTemplatesYieldNothing ==
    \A t \in VarTemplates(scan.executable_templates) \cap (1..Len(scan.matches)) :
        scan.matches[t] = <<>>

LiteralVarEntries == {q \in disk : q[1] = "$BLENDER_BIN_DIR"}

\* C8 as stated: with $BLENDER_BIN_DIR unset, the template that refers to it yields no
\* candidates whatever is on disk and whatever the working directory, and the other
\* templates' candidates are still produced.
C8_UnsetVariableYieldsNothing ==
    (ScanDone /\ environ.BLENDER_BIN_DIR = NoneVal
              /\ VarTemplates(scan.executable_templates) # {}) =>
        VarTemplatesYieldNothing /\ OthersProduced

\* C8 amended: with $BLENDER_BIN_DIR unset, the template that refers to it yields no
\* candidates provided the working directory holds no directory literally named
\* $BLENDER_BIN_DIR with a matching entry; the other templates' candidates are still
\* produced in every case.
C8_UnsetVariableYieldsNothingUnlessLiteral ==
    (ScanDone /\ environ.BLENDER_BIN_DIR = NoneVal
              /\ VarTemplates(scan.executable_templates) # {}) =>
        /\ LiteralVarEntries = {} => VarTemplatesYieldNothing
        /\ OthersProduced

C8_Witness ==
    /\ ScanDone
    /\ host.platform = "darwin"
    /\ environ.BLENDER_BIN_DIR = NoneVal
    /\ LiteralVarEntries = {}
    /\ <<"/opt/blender", "/Blender ", "3.6">> \in disk
    /\ Len(scan.matches) = 2
    /\ scan.matches[1] = <<>>
    /\ Len(scan.matches[2]) = 1

===========================================================================
